---- MODULE Spec2Model ----
(***************************************************************************)
(* The "Finding Installed back-ends" cell of                               *)
(* "Chapter 12-a Matplotlib backends.ipynb": the two filename helpers      *)
(* is_backend_module and backend_fname_formatter, the discovery of the     *)
(* backend names from the directory listing, and the validation loop that  *)
(* tries plt.switch_backend on each of them.                               *)
(*                                                                         *)
(* A Python str is a sequence of one-character strings; Python's 0-based   *)
(* indices and half-open slices are kept in the helpers below.             *)
(***************************************************************************)
EXTENDS Integers, Sequences, FiniteSets, TLC

VARIABLES
    dir,             \* the backends directory: [exists, entries] (os.listdir's answer)
    env,             \* what activating each backend name does here: "ok", "error", "hang"
    pc,              \* position in the cell: "start", "loop", "switching", "appending",
                     \* "done", "raised"
    defined,         \* the names of the cell's lists that are bound so far
    backends,        \* the list `backends`
    backends_valid,  \* the list `backends_valid`
    i,               \* 1-based position of the loop variable b in backends
    active,          \* matplotlib's process-wide active backend
    out,             \* what the cell has printed, in order
    exc,             \* the exception that left the cell: "none" or its name
    attempts,        \* history: the arguments of the plt.switch_backend calls, in order
    probes,          \* history: per finished loop iteration, [b, ok]
    fname,           \* the argument of the filename helpers (helper specification)
    is_ret,          \* <<>> or <<the value is_backend_module(fname) returned>>
    fmt_ret          \* <<>> or <<[exc, value]>>: how backend_fname_formatter(fname) ended

vars == <<dir, env, pc, defined, backends, backends_valid, i, active, out, exc,
          attempts, probes, fname, is_ret, fmt_ret>>

(***************************************************************************)
(* Bounds                                                                  *)
(***************************************************************************)
MaxListing == 3
MaxStem == 3

(***************************************************************************)
(* Python str helpers                                                      *)
(***************************************************************************)
Min(a, b) == IF a < b THEN a ELSE b

\* the greatest element of a non-empty set of integers
MaxOf(S) == CHOOSE m \in S : \A k \in S : k <= m

\* s[lo:hi] for 0 <= lo, 0 <= hi
Slice(s, lo, hi) == SubSeq(s, lo + 1, Min(hi, Len(s)))

\* s[lo:] for 0 <= lo
SliceFrom(s, lo) == SubSeq(s, lo + 1, Len(s))

\* s.startswith(p)
startswith(s, p) == Len(s) >= Len(p) /\ SubSeq(s, 1, Len(p)) = p

\* s.endswith(x)
endswith(s, x) == Len(s) >= Len(x) /\ SubSeq(s, Len(s) - Len(x) + 1, Len(s)) = x

\* s.rfind(ch) for a one-character ch: the highest 0-based index, or -1
rfind(s, ch) ==
    IF \A k \in 1..Len(s) : s[k] # ch THEN -1
    ELSE CHOOSE k \in 0..(Len(s) - 1) :
             s[k + 1] = ch /\ \A j \in (k + 1)..(Len(s) - 1) : s[j + 1] # ch

sep == "/"
extsep == "."

\* os.path.splitext (posixpath: genericpath._splitext with sep "/", no altsep):
\* the extension starts at the last dot, unless that dot comes before the last
\* separator or only dots lie between the separator and it.
splitext(p) ==
    LET sepIndex == rfind(p, sep)
        dotIndex == rfind(p, extsep)
        nonDot == {k \in (sepIndex + 1)..(dotIndex - 1) : p[k + 1] # extsep}
    IN IF dotIndex > sepIndex /\ nonDot # {}
       THEN <<Slice(p, 0, dotIndex), SliceFrom(p, dotIndex)>>
       ELSE <<p, <<>>>>

(***************************************************************************)
(* The two helpers of the cell                                             *)
(***************************************************************************)
backend_ == <<"b", "a", "c", "k", "e", "n", "d", "_">>
dotpy == <<".", "p", "y">>

is_backend_module_or(f) == startswith(f, backend_) \/ endswith(f, dotpy)

is_backend_module(f) == startswith(f, backend_) /\ endswith(f, dotpy)

\* fname.split('.')[0][8:]: cuts at the first dot instead of the last
backend_fname_formatter_firstdot(f) ==
    LET D == {k \in 1..Len(f) : f[k] = extsep}
        root == IF D = {} THEN f
                ELSE SubSeq(f, 1, (CHOOSE m \in D : \A k \in D : m <= k) - 1)
    IN SliceFrom(root, 8)

backend_fname_formatter(f) == SliceFrom(splitext(f)[1], 8)

(***************************************************************************)
(* The environment: directory entries and backend names                    *)
(***************************************************************************)
RECURSIVE SeqsUpTo(_, _)
\* all sequences over S of length at most n
SeqsUpTo(S, n) ==
    IF n = 0 THEN {<<>>}
    ELSE LET shorter == SeqsUpTo(S, n - 1)
         IN shorter \cup {Append(s, x) : s \in {t \in shorter : Len(t) = n - 1}, x \in S}

agg == <<"a", "g", "g">>
pdf == <<"p", "d", "f">>
qtbroken == <<"q", "t", "b", "r", "o", "k", "e", "n">>

backend_agg_py == backend_ \o agg \o dotpy
backend_pdf_py == backend_ \o pdf \o dotpy
backend_qtbroken_py == backend_ \o qtbroken \o dotpy
readme_txt == <<"r", "e", "a", "d", "m", "e", ".", "t", "x", "t">>
init_py == <<"_", "_", "i", "n", "i", "t", "_", "_", ".", "p", "y">>

\* the entries a listing of the backends directory is drawn from
DirNames == {backend_agg_py, backend_pdf_py, backend_qtbroken_py, readme_txt, init_py}

ExampleListing == <<backend_agg_py, backend_pdf_py, readme_txt, init_py>>

Listings == SeqsUpTo(DirNames, MaxListing) \cup {ExampleListing}

\* the names plt.switch_backend can be called with
BackendNames == {backend_fname_formatter(f) : f \in {g \in DirNames : is_backend_module(g)}}

Outcomes == {"ok", "error", "hang"}

\* the backend the notebook kernel starts with
InitialBackend == <<"i", "n", "l", "i", "n", "e">>

\* the arguments of the helper specification: prefix, stem and suffix variants
Prefixes ==
    { <<>>, backend_,
      <<"b", "a", "c", "k", "e", "n", "d", " ">>,
      <<"b", "a", "c", "k", "e", "n", "d">>,
      <<"B", "a", "c", "k", "e", "n", "d", "_">>,
      <<"_", "b", "a", "c", "k", "e", "n", "d", "_">>,
      <<"_", "_", "i", "n", "i", "t", "_", "_">>,
      <<"r", "e", "a", "d", "m", "e">>,
      <<".">>,
      <<".", "b", "a", "c", "k", "e", "n", "d", "_">> }

StemChars == {"a", "."}

Stems == SeqsUpTo(StemChars, MaxStem) \cup {agg, <<"q", "t", "5", "a", "g", "g">>}

Suffixes ==
    { <<>>, dotpy, <<".", "t", "x", "t">>, <<".", "p", "y", "c">>, <<"p", "y">>,
      <<".", "p", "y", ".">>, <<".", "P", "Y">>, <<".">> }

\* directory entry names: they never contain the path separator
FileNames == {p \o s \o x : p \in Prefixes, s \in Stems, x \in Suffixes}

(***************************************************************************)
(* The calls into the libraries                                            *)
(***************************************************************************)
\* os.listdir(backends_dir): the entries, or FileNotFoundError
os_listdir(d) ==
    IF d.exists THEN [raised |-> "none", value |-> d.entries]
    ELSE [raised |-> "FileNotFoundError", value |-> <<>>]

\* plt.switch_backend(newbackend) when it returns or raises: success makes
\* newbackend the active backend, an error leaves the active backend alone
switch_backend(newbackend, cur) ==
    IF env[newbackend] = "ok"
    THEN [raised |-> FALSE, active |-> newbackend]
    ELSE [raised |-> TRUE, active |-> cur]

\* plt.switch_backend(newbackend) never comes back
switch_hangs(newbackend) == env[newbackend] = "hang"

(***************************************************************************)
(* The cell                                                                *)
(***************************************************************************)
RECURSIVE filter(_)
\* filter(is_backend_module, entries)
filter(entries) ==
    IF entries = <<>> THEN <<>>
    ELSE IF is_backend_module(Head(entries))
         THEN <<Head(entries)>> \o filter(Tail(entries))
         ELSE filter(Tail(entries))

RECURSIVE dedup(_)
\* the list without the later occurrences of an element
dedup(s) ==
    IF s = <<>> THEN <<>>
    ELSE LET front == dedup(SubSeq(s, 1, Len(s) - 1))
             last == s[Len(s)]
         IN IF \E k \in 1..Len(front) : front[k] = last THEN front
            ELSE Append(front, last)

\* the names of the listed backend modules, each name once
supported_backends_dedup(entries) ==
    LET backend_fnames == filter(entries)
    IN dedup([k \in 1..Len(backend_fnames) |-> backend_fname_formatter(backend_fnames[k])])

\* backends = [backend_fname_formatter(fname) for fname in backend_fnames]
supported_backends(entries) ==
    LET backend_fnames == filter(entries)
    IN [k \in 1..Len(backend_fnames) |-> backend_fname_formatter(backend_fnames[k])]

\* backends_valid += b: extends the list by the characters of b
add_valid_chars(valid, b) == valid \o [k \in 1..Len(b) |-> <<b[k]>>]

\* backends_valid = [b] + backends_valid: the newest valid backend comes first
add_valid_front(valid, b) == <<b>> \o valid

\* backends_valid += [b]
add_valid(valid, b) == valid \o <<b>>

\* the loop variable
b == backends[i]

Init ==
    /\ dir \in {[exists |-> TRUE, entries |-> l] : l \in Listings}
               \cup {[exists |-> FALSE, entries |-> <<>>]}
    /\ env \in [BackendNames -> Outcomes]
    /\ pc = "start"
    /\ defined = {}
    /\ backends = <<>>
    /\ backends_valid = <<>>
    /\ i = 1
    /\ active = InitialBackend
    /\ out = <<>>
    /\ exc = "none"
    /\ attempts = <<>>
    /\ probes = <<>>
    /\ fname = <<>>
    /\ is_ret = <<>>
    /\ fmt_ret = <<>>

\* the listing fails and the cell recovers with no backends at all
DiscoverRecovers ==
    /\ pc = "start"
    /\ os_listdir(dir).raised # "none"
    /\ backends' = <<>>
    /\ out' = Append(out, [label |-> "supported backends", value |-> <<>>])
    /\ backends_valid' = <<>>
    /\ defined' = {"backends", "backends_valid"}
    /\ i' = 1
    /\ pc' = "loop"
    /\ UNCHANGED <<dir, env, active, exc, attempts, probes, fname, is_ret, fmt_ret>>

\* lines 122-125 when os.listdir raises: nothing catches it, the cell ends
DiscoverFails ==
    /\ pc = "start"
    /\ os_listdir(dir).raised # "none"
    /\ exc' = os_listdir(dir).raised
    /\ pc' = "raised"
    /\ UNCHANGED <<dir, env, defined, backends, backends_valid, i, active, out,
                   attempts, probes, fname, is_ret, fmt_ret>>

\* lines 122-132: list, filter, format, print, and start with no valid backend
Discover ==
    /\ pc = "start"
    /\ os_listdir(dir).raised = "none"
    /\ backends' = supported_backends(os_listdir(dir).value)
    /\ out' = Append(out, [label |-> "supported backends", value |-> backends'])
    /\ backends_valid' = <<>>
    /\ defined' = {"backends", "backends_valid"}
    /\ i' = 1
    /\ pc' = "loop"
    /\ UNCHANGED <<dir, env, active, exc, attempts, probes, fname, is_ret, fmt_ret>>

\* lines 133-135: the next b, and the call of plt.switch_backend(b)
TrySwitch ==
    /\ pc = "loop"
    /\ i <= Len(backends)
    /\ attempts' = Append(attempts, b)
    /\ pc' = "switching"
    /\ UNCHANGED <<dir, env, defined, backends, backends_valid, i, active, out, exc,
                   probes, fname, is_ret, fmt_ret>>

\* the switch returns and the cell switches back to the backend it had before
SwitchReturnsRestoring ==
    /\ pc = "switching"
    /\ ~switch_hangs(b)
    /\ ~switch_backend(b, active).raised
    /\ active' = active
    /\ pc' = "appending"
    /\ UNCHANGED <<dir, env, defined, backends, backends_valid, i, out, exc, attempts,
                   probes, fname, is_ret, fmt_ret>>

\* line 135: plt.switch_backend(b) returns; b is active, line 136 is next
SwitchReturns ==
    /\ pc = "switching"
    /\ ~switch_hangs(b)
    /\ ~switch_backend(b, active).raised
    /\ active' = switch_backend(b, active).active
    /\ pc' = "appending"
    /\ UNCHANGED <<dir, env, defined, backends, backends_valid, i, out, exc, attempts,
                   probes, fname, is_ret, fmt_ret>>

\* line 136: backends_valid += [b]; the iteration ends with b found valid
AppendValid ==
    /\ pc = "appending"
    /\ backends_valid' = add_valid(backends_valid, b)
    /\ probes' = Append(probes, [b |-> b, ok |-> TRUE])
    /\ i' = i + 1
    /\ pc' = "loop"
    /\ UNCHANGED <<dir, env, defined, backends, active, out, exc, attempts, fname,
                   is_ret, fmt_ret>>

\* the switch raises and the loop ends (break)
SwitchRaisesBreak ==
    /\ pc = "switching"
    /\ ~switch_hangs(b)
    /\ switch_backend(b, active).raised
    /\ active' = switch_backend(b, active).active
    /\ probes' = Append(probes, [b |-> b, ok |-> FALSE])
    /\ i' = Len(backends) + 1
    /\ pc' = "loop"
    /\ UNCHANGED <<dir, env, defined, backends, backends_valid, out, exc, attempts,
                   fname, is_ret, fmt_ret>>

\* the switch raises and the first failure of the run is tried once more
SwitchRaisesRetry ==
    /\ pc = "switching"
    /\ ~switch_hangs(b)
    /\ switch_backend(b, active).raised
    /\ active' = switch_backend(b, active).active
    /\ probes' = Append(probes, [b |-> b, ok |-> FALSE])
    /\ i' = IF Len(attempts) <= i THEN i ELSE i + 1
    /\ pc' = "loop"
    /\ UNCHANGED <<dir, env, defined, backends, backends_valid, out, exc, attempts,
                   fname, is_ret, fmt_ret>>

\* lines 135, 137-138: the switch raises, the bare except swallows it, continue
SwitchRaises ==
    /\ pc = "switching"
    /\ ~switch_hangs(b)
    /\ switch_backend(b, active).raised
    /\ active' = switch_backend(b, active).active
    /\ probes' = Append(probes, [b |-> b, ok |-> FALSE])
    /\ i' = i + 1
    /\ pc' = "loop"
    /\ UNCHANGED <<dir, env, defined, backends, backends_valid, out, exc, attempts,
                   fname, is_ret, fmt_ret>>

\* line 140: the loop is over, print the valid backends
Finish ==
    /\ pc = "loop"
    /\ i > Len(backends)
    /\ out' = Append(out, [label |-> "valid backends", value |-> backends_valid])
    /\ pc' = "done"
    /\ UNCHANGED <<dir, env, defined, backends, backends_valid, i, active, exc,
                   attempts, probes, fname, is_ret, fmt_ret>>

Next ==
    \/ Discover
    \/ DiscoverFails
    \/ TrySwitch
    \/ SwitchReturns
    \/ AppendValid
    \/ SwitchRaises
    \/ Finish

Spec == Init /\ [][Next]_vars

\* the interpreter keeps running the loop while a step of it is possible
FairSpec ==
    Spec /\ WF_vars(TrySwitch \/ SwitchReturns \/ AppendValid \/ SwitchRaises \/ Finish)

(***************************************************************************)
(* The helpers on their own: one filename, each helper called on it        *)
(***************************************************************************)
InitHelpers ==
    /\ fname \in FileNames
    /\ is_ret = <<>>
    /\ fmt_ret = <<>>
    /\ dir = [exists |-> TRUE, entries |-> <<>>]
    /\ env = [d \in BackendNames |-> "ok"]
    /\ pc = "start"
    /\ defined = {}
    /\ backends = <<>>
    /\ backends_valid = <<>>
    /\ i = 1
    /\ active = InitialBackend
    /\ out = <<>>
    /\ exc = "none"
    /\ attempts = <<>>
    /\ probes = <<>>

\* line 115: is_backend_module(fname) returns
CallIsBackendModule ==
    /\ is_ret = <<>>
    /\ is_ret' = <<is_backend_module(fname)>>
    /\ UNCHANGED <<dir, env, pc, defined, backends, backends_valid, i, active, out, exc,
                   attempts, probes, fname, fmt_ret>>

\* the formatter refuses a name that is not a backend module
CallFormatterGuarded ==
    /\ fmt_ret = <<>>
    /\ fmt_ret' = IF is_backend_module(fname)
                  THEN <<[exc |-> "none", value |-> backend_fname_formatter(fname)]>>
                  ELSE <<[exc |-> "InvalidArgument", value |-> <<>>]>>
    /\ UNCHANGED <<dir, env, pc, defined, backends, backends_valid, i, active, out, exc,
                   attempts, probes, fname, is_ret>>

\* line 119: backend_fname_formatter(fname) returns; no str makes it raise
CallFormatter ==
    /\ fmt_ret = <<>>
    /\ fmt_ret' = <<[exc |-> "none", value |-> backend_fname_formatter(fname)]>>
    /\ UNCHANGED <<dir, env, pc, defined, backends, backends_valid, i, active, out, exc,
                   attempts, probes, fname, is_ret>>

NextHelpers ==
    \/ CallIsBackendModule
    \/ CallFormatter

SpecHelpers == InitHelpers /\ [][NextHelpers]_vars

(***************************************************************************)
(* Properties                                                              *)
(***************************************************************************)
\* f, character by character, begins with backend_ and ends with .py
MatchesConvention(f) ==
    /\ Len(f) >= 8
    /\ \A k \in 1..8 : f[k] = backend_[k]
    /\ Len(f) >= 3
    /\ \A k \in 1..3 : f[Len(f) - 3 + k] = dotpy[k]

\* activating d succeeds in this environment
activates(d) == env[d] = "ok"

\* no backend of the list hangs when activated
NoneHangs == \A k \in 1..Len(backends) : env[backends[k]] # "hang"

\* C1: at every point of the cell, every element of backends_valid is an
\* element of backends.
C1_UsableSubsetOfDiscovered ==
    \A k \in 1..Len(backends_valid) :
        \E j \in 1..Len(backends) : backends[j] = backends_valid[k]

C1_Witness ==
    /\ pc = "done"
    /\ Len(backends_valid) >= 1
    /\ Len(backends_valid) < Len(backends)

\* C2: when the listing succeeds no exception leaves the cell and the loop is
\* never stuck unless an activation hangs; it finishes with backends_valid being
\* exactly the backends whose activation succeeded, in the order of backends,
\* every backend having been probed; [agg, qtbroken] with qtbroken failing
\* gives [agg].
C2_UsableIsSuccessfulSubsequence ==
    /\ dir.exists => (exc = "none" /\ pc # "raised")
    /\ (pc = "loop" \/ pc = "appending" \/ (pc = "switching" /\ ~switch_hangs(b)))
        => ENABLED (TrySwitch \/ SwitchReturns \/ AppendValid \/ SwitchRaises \/ Finish)
    /\ pc = "done" =>
        /\ backends_valid = SelectSeq(backends, activates)
        /\ Len(probes) = Len(backends)
        /\ out[Len(out)] = [label |-> "valid backends", value |-> backends_valid]
    /\ (pc = "done" /\ backends = <<agg, qtbroken>>
          /\ env[agg] = "ok" /\ env[qtbroken] = "error")
        => backends_valid = <<agg>>

C2_Witness ==
    /\ pc = "done"
    /\ backends = <<agg, qtbroken>>
    /\ env[qtbroken] = "error"
    /\ backends_valid = <<agg>>

\* C3: is_backend_module(f) is true exactly when f begins with backend_ and
\* ends with .py; backend_agg.py is accepted, "backend agg.py",
\* backend_agg.txt, readme.txt and __init__.py are rejected.
C3_IsBackendModuleIff ==
    is_ret # <<>> =>
        /\ is_ret[1] = MatchesConvention(fname)
        /\ fname = backend_agg_py => is_ret[1]
        /\ fname \in { <<"b", "a", "c", "k", "e", "n", "d", " ">> \o agg \o dotpy,
                       backend_ \o agg \o <<".", "t", "x", "t">>,
                       readme_txt, init_py } => ~is_ret[1]

C3_Witness == fname = backend_agg_py /\ is_ret = <<TRUE>>

\* C4: for a name that begins with backend_ and ends with .py, the formatter
\* returns the name without these two, so that backend_ + result + .py is the
\* name again; backend_qt5agg.py gives qt5agg, backend_a.b.py gives a.b and
\* backend_.py gives the empty string.
C4_FormatterStripsExactly ==
    (fmt_ret # <<>> /\ MatchesConvention(fname)) =>
        /\ fmt_ret[1].exc = "none"
        /\ backend_ \o fmt_ret[1].value \o dotpy = fname
        /\ fname = backend_ \o dotpy => fmt_ret[1].value = <<>>
        /\ fname = backend_ \o <<"q", "t", "5", "a", "g", "g">> \o dotpy
             => fmt_ret[1].value = <<"q", "t", "5", "a", "g", "g">>
        /\ fname = backend_ \o <<"a", ".", "a">> \o dotpy
             => fmt_ret[1].value = <<"a", ".", "a">>

C4_Witness ==
    /\ fname = backend_ \o <<"a", ".", "a">> \o dotpy
    /\ fmt_ret = <<[exc |-> "none", value |-> <<"a", ".", "a">>]>>

\* the positions of the listing that hold a backend module
Matching(entries) == {k \in 1..Len(entries) : MatchesConvention(entries[k])}

\* the n-th smallest element of the set of positions M
NthOf(M, n) == CHOOSE k \in M : Cardinality({m \in M : m <= k}) = n

\* C5: backends has one element per listed backend module, in listing order,
\* each being that entry without backend_ and .py: other entries do not appear
\* and equal names are kept; [backend_agg.py, backend_pdf.py, readme.txt,
\* __init__.py] gives [agg, pdf].
C5_ListFilterMapInOrder ==
    "backends" \in defined =>
        /\ Len(backends) = Cardinality(Matching(dir.entries))
        /\ \A n \in 1..Len(backends) :
              backend_ \o backends[n] \o dotpy
                  = dir.entries[NthOf(Matching(dir.entries), n)]
        /\ dir.entries = ExampleListing => backends = <<agg, pdf>>

C5_Witness ==
    /\ dir.entries = ExampleListing
    /\ "backends" \in defined
    /\ backends = <<agg, pdf>>

\* C6: when the directory does not exist the cell ends with os.listdir's
\* FileNotFoundError: no list is bound, nothing is printed, and the cell never
\* goes on to the loop.
C6_MissingDirectoryFails ==
    ~dir.exists =>
        /\ pc \in {"start", "raised"}
        /\ pc = "raised" <=> exc = "FileNotFoundError"
        /\ defined = {}
        /\ backends = <<>> /\ backends_valid = <<>>
        /\ out = <<>>
        /\ attempts = <<>>

C6_Witness == ~dir.exists /\ pc = "raised" /\ exc = "FileNotFoundError" /\ out = <<>>

\* the name without its last extension (none when the name has no dot, or only
\* dots before its last dot) and then without its first 8 characters
RootFrom8(f) ==
    LET dots == {k \in 1..Len(f) : f[k] = "."}
        lastDot == IF dots = {} THEN 0 ELSE MaxOf(dots)
        hasExt == \E k \in 1..(lastDot - 1) : f[k] # "."
        root == IF hasExt THEN [k \in 1..(lastDot - 1) |-> f[k]] ELSE f
    IN [k \in 1..(IF Len(root) > 8 THEN Len(root) - 8 ELSE 0) |-> root[k + 8]]

\* C8 as stated: on a name that is not a backend module the formatter fails
\* with InvalidArgument.
C8_Original ==
    (fmt_ret # <<>> /\ ~MatchesConvention(fname)) => fmt_ret[1].exc = "InvalidArgument"

\* C8, amended: on a name that is not a backend module the formatter does not
\* fail; it returns the name without its last extension and without its first
\* 8 characters, whatever they are.
C8_FormatterNeverFails ==
    (fmt_ret # <<>> /\ ~MatchesConvention(fname)) =>
        /\ fmt_ret[1].exc = "none"
        /\ fmt_ret[1].value = RootFrom8(fname)

C8_Witness ==
    /\ fname = backend_ \o agg \o <<".", "t", "x", "t">>
    /\ fmt_ret = <<[exc |-> "none", value |-> agg]>>

\* C9: when the switch of a probe returns, the active backend is the probed
\* one, and it still is when the probe ends as a success (nothing restores the
\* backend from before); when the probe ends as a failure the active backend
\* is the one from before the probe; nothing else in the cell changes the
\* active backend.
C9_ActiveAfterProbe ==
    [][ /\ (pc = "switching" /\ pc' = "appending") => active' = b
        /\ (pc = "switching" /\ pc' \notin {"switching", "appending"}) =>
              /\ probes' = Append(probes, [b |-> b, ok |-> FALSE])
              /\ active' = active
        /\ pc = "appending" =>
              /\ probes' = Append(probes, [b |-> b, ok |-> TRUE])
              /\ active = b
              /\ active' = b
        /\ pc # "switching" => active' = active ]_vars

C9_Witness ==
    /\ Len(probes) >= 2
    /\ probes[1].ok /\ ~probes[2].ok
    /\ active = probes[1].b
    /\ active # InitialBackend

\* the attempts made so far are the first elements of backends, one each, the
\* current one included; a finished cell has attempted them all and none hung
C10_Attempts ==
    /\ Len(attempts) = (IF pc \in {"switching", "appending"} THEN i ELSE i - 1)
    /\ Len(attempts) <= Len(backends)
    /\ \A k \in 1..Len(attempts) : attempts[k] = backends[k]
    /\ pc = "done" => (attempts = backends /\ NoneHangs)

\* C10: the switch is attempted once per element of backends, in order, with
\* no retry; the cell finishes if every attempt returns; an attempt that never
\* returns leaves the cell where it is, with nothing further probed.
C10_OneAttemptEachNoTimeout ==
    /\ []C10_Attempts
    /\ (pc = "loop" /\ NoneHangs) ~> (pc = "done")
    /\ [][~(pc = "switching" /\ switch_hangs(b))]_vars

C10_Witness ==
    /\ pc = "switching"
    /\ switch_hangs(b)
    /\ Len(attempts) >= 2
    /\ i < Len(backends)

\* the last element of backends_valid, or the backend that was active before
\* the cell when backends_valid is empty
LastUsableOrInitial ==
    IF backends_valid # <<>> THEN backends_valid[Len(backends_valid)]
    ELSE InitialBackend

\* C11 as stated: at every point of the loop and when the cell is done, the
\* active backend is the last element of backends_valid, or the backend that
\* was active before the cell when backends_valid is empty.
C11_Original ==
    pc \in {"loop", "switching", "appending", "done"} => active = LastUsableOrInitial

\* C11, amended: the same at the start of every iteration, while a switch is
\* in progress and when the cell is done; between the successful return of
\* the switch to b and the append of b, the active backend is already b, the
\* element the append makes the last one.
C11_ActiveIsLastUsable ==
    /\ [](pc \in {"loop", "switching", "done"} => active = LastUsableOrInitial)
    /\ [](pc = "appending" => active = b)
    /\ [][pc = "appending" =>
            (pc' = "loop" /\ backends_valid'[Len(backends_valid')] = b
               /\ active' = LastUsableOrInitial')]_vars

C11_Witness ==
    /\ pc = "done"
    /\ Len(backends_valid) >= 2
    /\ Len(probes) >= 3
    /\ ~probes[Len(probes)].ok
    /\ active = backends_valid[Len(backends_valid)]
    /\ active # backends_valid[1]

====
